---- MODULE Spec2Model ----
(***************************************************************************)
(* brainfuck-extended: the Brainfuck-to-Rust code generator (codegen) and  *)
(* the direct interpreter (interpreter).                                   *)
(*                                                                         *)
(* The module models                                                       *)
(*   - codegen/src/ast.rs: the 1:1 and the run-length tokenizer, the       *)
(*     recursive structurer segment_inner and File::from_str;              *)
(*   - codegen/src/generator.rs: the lowering of a File to statements and  *)
(*     the meaning of every statement the generator can emit, as a small-  *)
(*     step machine over the generated program's locals;                   *)
(*   - interpreter/src/main.rs: BrainfuckInterpreter::run, one loop        *)
(*     iteration per step.                                                 *)
(*                                                                         *)
(* A source text is a sequence of one-character strings.  Bytes are        *)
(* numbers.  A Token is the name of its enum variant.                      *)
(***************************************************************************)
EXTENDS Integers, Sequences, FiniteSets, TLC

VARIABLES
    code,       \* the source text handed to the tokenizers / from_str
    tokens,     \* result of <Token as TokenExt>::tokenize(code)
    rtokens,    \* result of <Repeated as TokenExt>::tokenize(code)
    file,       \* the File<Repeated> built by from_str
    pc,         \* which front-end call has returned last
    cfg,        \* the BrainfuckToRust configuration
    build,      \* "debug" (overflow checks on) or "release" (wrapping)
    gen,        \* outcome of BrainfuckToRust::generate: "none", "Ok", "Panic"
    cont,       \* generated program: the statements still to execute
    tape,       \* generated program: the nonzero cells of `tape`
    pointer,    \* generated program: `pointer`
    input,      \* generated program: `input`
    input_pos,  \* generated program: `input_pos`
    out,        \* generated program: the bytes printed so far
    status,     \* generated program: "idle", "running", "done", "panic"
    last,       \* generated program: the statement executed by the last step
    steps,      \* number of tokens lowered so far (policy specification)
    interp,     \* the BrainfuckInterpreter struct and how run() ended
    crate       \* generate_crate_for_code: its position, src/main.rs, rustfmt

frontVars == <<code, tokens, rtokens, file, pc>>
envVars == <<cfg, build, gen, crate>>
genVars == <<cont, tape, pointer, input, input_pos, out, status, last, steps>>
vars == <<code, tokens, rtokens, file, pc, cfg, build, gen,
          cont, tape, pointer, input, input_pos, out, status, last, steps,
          interp, crate>>

(***************************************************************************)
(* Bounds of the model.                                                    *)
(***************************************************************************)
\* longest source text enumerated in full by the front-end specification
MaxCode == 4

\* longest source text enumerated in full by the run specification
MaxRunCode == 3

\* most bytes either program may print before the model stops following it
MaxOut == 4

\* furthest cell the model follows the interpreter's pointer to
MaxPointer == 6

\* most tokens lowered and executed in a row by the policy specification
MaxSteps == 2

\* longest token vector handed to Tokens::new by the generate specification
MaxToks == 3

\* `memory_size` of the configurations of the policy specification
PolicyMemSize == 3

\* longest source text enumerated in full by the crate specification
MaxCrateCode == 2

(***************************************************************************)
(* ast.rs: tokens                                                          *)
(***************************************************************************)
NoToken == "None"

InstrChars == {">", "<", "+", "-", ",", ".", "[", "]"}

\* "x" stands for every character that is not an instruction
Chars == InstrChars \cup {"x"}

from_char_first_six(c) ==
    CASE c = ">" -> "PointerAdd"
      [] c = "<" -> "PointerSub"
      [] c = "+" -> "ValueAdd"
      [] c = "-" -> "ValueSub"
      [] c = "," -> "Read"
      [] c = "." -> "Write"
      [] OTHER -> NoToken

from_char(c) ==
    CASE c = ">" -> "PointerAdd"
      [] c = "<" -> "PointerSub"
      [] c = "+" -> "ValueAdd"
      [] c = "-" -> "ValueSub"
      [] c = "," -> "Read"
      [] c = "." -> "Write"
      [] c = "[" -> "LoopStart"
      [] c = "]" -> "LoopEnd"
      [] OTHER -> NoToken

as_char(t) ==
    CASE t = "PointerAdd" -> ">"
      [] t = "PointerSub" -> "<"
      [] t = "ValueAdd" -> "+"
      [] t = "ValueSub" -> "-"
      [] t = "Read" -> ","
      [] t = "Write" -> "."
      [] t = "LoopStart" -> "["
      [] t = "LoopEnd" -> "]"

RECURSIVE TokenLoop(_, _, _)
\* the `for c in code.chars()` loop of Token::tokenize, at character i
TokenLoop(text, i, acc) ==
    IF i > Len(text) THEN acc
    ELSE LET token == from_char(text[i])
         IN  TokenLoop(text, i + 1,
                       IF token # NoToken THEN Append(acc, token) ELSE acc)

Token_tokenize(text) == TokenLoop(text, 1, <<>>)

Repeated(token, count) == [token |-> token, count |-> count]

RECURSIVE PeekLoopNoCount(_, _, _, _)
PeekLoopNoCount(toks, token, j, count) ==
    IF /\ j <= Len(toks)
       /\ token \notin {"LoopStart", "LoopEnd", "Read"}
       /\ toks[j] = token
    THEN PeekLoopNoCount(toks, token, j + 1, count)
    ELSE [next |-> j, count |-> count]

RECURSIVE PeekLoopNoWrite(_, _, _, _)
PeekLoopNoWrite(toks, token, j, count) ==
    IF /\ j <= Len(toks)
       /\ token \notin {"LoopStart", "LoopEnd", "Read", "Write"}
       /\ toks[j] = token
    THEN PeekLoopNoWrite(toks, token, j + 1, count + 1)
    ELSE [next |-> j, count |-> count]

RECURSIVE PeekLoopMergeAll(_, _, _, _)
PeekLoopMergeAll(toks, token, j, count) ==
    IF /\ j <= Len(toks)
       /\ toks[j] = token
    THEN PeekLoopMergeAll(toks, token, j + 1, count + 1)
    ELSE [next |-> j, count |-> count]

RECURSIVE PeekLoop(_, _, _, _)
\* the inner `while let Some(next) = iter.peek()` loop: j is the position
\* the iterator would yield next
PeekLoop(toks, token, j, count) ==
    IF /\ j <= Len(toks)
       /\ token \notin {"LoopStart", "LoopEnd", "Read"}
       /\ toks[j] = token
    THEN PeekLoop(toks, token, j + 1, count + 1)
    ELSE [next |-> j, count |-> count]

RECURSIVE RepeatedLoop(_, _, _)
\* the outer `while let Some(token) = iter.next()` loop
RepeatedLoop(toks, i, acc) ==
    IF i > Len(toks) THEN acc
    ELSE LET r == PeekLoop(toks, toks[i], i + 1, 1)
         IN  RepeatedLoop(toks, r.next, Append(acc, Repeated(toks[i], r.count)))

Repeated_tokenize(text) == RepeatedLoop(Token_tokenize(text), 1, <<>>)

(***************************************************************************)
(* ast.rs: segments                                                        *)
(***************************************************************************)
Executable(toks) == [kind |-> "Executable", tokens |-> toks, body |-> <<>>]

Loop(segments) == [kind |-> "Loop", tokens |-> <<>>, body |-> segments]

RECURSIVE SegmentLoop(_, _, _, _, _)
RECURSIVE segment_inner(_)

RECURSIVE SegmentLoopForgetsClose(_, _, _, _, _)
SegmentLoopForgetsClose(slice, i, segments, consumed, run) ==
    IF i > Len(slice)
    THEN [segments |-> segments, consumed |-> consumed]
    ELSE LET token == slice[i] IN
         CASE token.token = "LoopStart" ->
                LET flushed == IF run # <<>>
                               THEN Append(segments, Executable(run))
                               ELSE segments
                    inner == segment_inner(SubSeq(slice, i + 1, Len(slice)))
                IN  SegmentLoopForgetsClose(slice, i + 1 + inner.consumed + 1,
                                Append(flushed, Loop(inner.segments)),
                                consumed + inner.consumed + 1, <<>>)
           [] token.token = "LoopEnd" ->
                [segments |-> IF run # <<>>
                              THEN Append(segments, Executable(run))
                              ELSE segments,
                 consumed |-> consumed]
           [] OTHER ->
                SegmentLoopForgetsClose(slice, i + 1, segments, consumed + 1,
                            Append(run, token))

RECURSIVE SegmentLoopNoFlushAtLoopEnd(_, _, _, _, _)
SegmentLoopNoFlushAtLoopEnd(slice, i, segments, consumed, run) ==
    IF i > Len(slice)
    THEN [segments |-> segments, consumed |-> consumed]
    ELSE LET token == slice[i] IN
         CASE token.token = "LoopStart" ->
                LET flushed == IF run # <<>>
                               THEN Append(segments, Executable(run))
                               ELSE segments
                    inner == segment_inner(SubSeq(slice, i + 1, Len(slice)))
                IN  SegmentLoopNoFlushAtLoopEnd(slice, i + 1 + inner.consumed + 1,
                                Append(flushed, Loop(inner.segments)),
                                consumed + inner.consumed + 2, <<>>)
           [] token.token = "LoopEnd" ->
                [segments |-> segments,
                 consumed |-> consumed]
           [] OTHER ->
                SegmentLoopNoFlushAtLoopEnd(slice, i + 1, segments, consumed + 1,
                            Append(run, token))

RECURSIVE SegmentLoopFlushesEmpty(_, _, _, _, _)
SegmentLoopFlushesEmpty(slice, i, segments, consumed, run) ==
    IF i > Len(slice)
    THEN [segments |-> segments, consumed |-> consumed]
    ELSE LET token == slice[i] IN
         CASE token.token = "LoopStart" ->
                LET flushed == Append(segments, Executable(run))
                    inner == segment_inner(SubSeq(slice, i + 1, Len(slice)))
                IN  SegmentLoopFlushesEmpty(slice, i + 1 + inner.consumed + 1,
                                Append(flushed, Loop(inner.segments)),
                                consumed + inner.consumed + 2, <<>>)
           [] token.token = "LoopEnd" ->
                [segments |-> IF run # <<>>
                              THEN Append(segments, Executable(run))
                              ELSE segments,
                 consumed |-> consumed]
           [] OTHER ->
                SegmentLoopFlushesEmpty(slice, i + 1, segments, consumed + 1,
                            Append(run, token))

\* the `while let Some((idx, token)) = iter.next()` loop of segment_inner;
\* i is the position (from 1) the iterator yields next, `run` is the
\* vector the source calls `code`
SegmentLoop(slice, i, segments, consumed, run) ==
    IF i > Len(slice)
    THEN \* line 181: the pending run is not pushed
         [segments |-> segments, consumed |-> consumed]
    ELSE LET token == slice[i] IN
         CASE token.token = "LoopStart" ->
                LET flushed == IF run # <<>>
                               THEN Append(segments, Executable(run))
                               ELSE segments
                    inner == segment_inner(SubSeq(slice, i + 1, Len(slice)))
                IN  \* iter.nth(count) takes count + 1 more items
                    SegmentLoop(slice, i + 1 + inner.consumed + 1,
                                Append(flushed, Loop(inner.segments)),
                                consumed + inner.consumed + 2, <<>>)
           [] token.token = "LoopEnd" ->
                [segments |-> IF run # <<>>
                              THEN Append(segments, Executable(run))
                              ELSE segments,
                 consumed |-> consumed]
           [] OTHER ->
                SegmentLoop(slice, i + 1, segments, consumed + 1,
                            Append(run, token))

segment_inner(slice) == SegmentLoop(slice, 1, <<>>, 0, <<>>)

segment(toks) == segment_inner(toks).segments

needs_input_of_first(toks) == toks # <<>> /\ toks[1].token = "Read"

needs_input_of(toks) == \E k \in 1..Len(toks) : toks[k].token = "Read"

\* <File<Repeated> as FromStr>::from_str (main.rs: File = ast::File<Repeated>)
from_str(s) ==
    LET toks == Repeated_tokenize(s)
    IN  [segments |-> segment(toks), needs_input |-> needs_input_of(toks)]

NoFile == [segments |-> <<>>, needs_input |-> FALSE]

(***************************************************************************)
(* generator.rs: configuration                                             *)
(***************************************************************************)
NoInput == [some |-> FALSE, value |-> <<>>]

SomeInput(text) == [some |-> TRUE, value |-> text]

NoChange == [kind |-> "NoChange", byte |-> 0]

Fixed(ch) == [kind |-> "Fixed", byte |-> ch]

\* the configuration main() builds (codegen/src/main.rs)
CliConfig(fixed_input) ==
    [memory_size |-> 30000, pointer_safety |-> "None",
     overflow_behavior |-> "None", cell_size |-> "U8",
     fixed_input |-> fixed_input, eof_behavior |-> NoChange]

(***************************************************************************)
(* generator.rs: lowering.  A statement of the generated program is a      *)
(* record: `op` and `policy` select the quoted Rust text, count_u8 and     *)
(* count_usize are the two literals interpolated into it, `lit` is the     *)
(* EOF byte, `body` the statements inside a `while`.                       *)
(***************************************************************************)
Stmt(op, policy, count_u8, count_usize, lit) ==
    [op |-> op, policy |-> policy, count_u8 |-> count_u8,
     count_usize |-> count_usize, lit |-> lit, body |-> <<>>]

While(body) ==
    [op |-> "while", policy |-> "none", count_u8 |-> 0, count_usize |-> 0,
     lit |-> 0, body |-> body]

NoStmt == Stmt("none", "none", 0, 0, 0)

\* `token.count() as u8`: the literal every cell statement is given,
\* whatever the configured cell type
count_u8_of(token) == token.count % 256

\* one iteration of the `for token in &tokens.tokens` loop
statement_of(c, token) ==
    CASE token.token \in {"PointerAdd", "PointerSub"} ->
            Stmt(token.token, c.pointer_safety, count_u8_of(token), token.count, 0)
      [] token.token \in {"ValueAdd", "ValueSub"} ->
            Stmt(token.token, c.overflow_behavior, count_u8_of(token), token.count, 0)
      [] token.token = "Read" ->
            Stmt("Read", c.eof_behavior.kind, count_u8_of(token), token.count,
                 c.eof_behavior.byte)
      [] token.token = "Write" ->
            Stmt("Write", "none", count_u8_of(token), token.count, 0)

\* the two macros that abort the lowering: unimplemented! for a read with
\* count > 1, unreachable! for a loop token inside an Executable
lowering_panics(token) ==
    \/ token.token = "Read" /\ token.count > 1
    \/ token.token \in {"LoopStart", "LoopEnd"}

generate_statements(c, toks) ==
    [k \in 1..Len(toks) |-> statement_of(c, toks[k])]

RECURSIVE generate_body(_, _)
generate_body(c, segments) ==
    IF segments = <<>> THEN <<>>
    ELSE (IF segments[1].kind = "Executable"
          THEN generate_statements(c, segments[1].tokens)
          ELSE <<While(generate_body(c, segments[1].body))>>)
         \o generate_body(c, Tail(segments))

RECURSIVE body_panics(_)
\* whether generate_body reaches one of the two macros
body_panics(segments) ==
    IF segments = <<>> THEN FALSE
    ELSE \/ IF segments[1].kind = "Executable"
            THEN \E k \in 1..Len(segments[1].tokens) :
                     lowering_panics(segments[1].tokens[k])
            ELSE body_panics(segments[1].body)
         \/ body_panics(Tail(segments))

\* the `input_def` choice of template(): which buffer `input` is bound to
template_input(c, needs_input, stdin) ==
    IF c.fixed_input.some THEN c.fixed_input.value
    ELSE IF needs_input THEN stdin
    ELSE <<>>

\* generate() returns Ok(full) or unwinds; it has no Err path
generate(c, f) ==
    IF body_panics(f.segments)
    THEN [outcome |-> "Panic", body |-> <<>>]
    ELSE [outcome |-> "Ok", body |-> generate_body(c, f.segments)]

IdleInterp ==
    [memory |-> <<>>, pointer |-> 0, loop_stack |-> <<>>, input |-> <<>>,
     input_pos |-> 0, code |-> <<>>, code_pos |-> 0, output |-> <<>>,
     status |-> "idle"]

\* gen_crate.rs: what a file or a pipe can hold
NoText == [kind |-> "absent", body |-> <<>>]

EmptyText == [kind |-> "empty", body |-> <<>>]

\* a src/main.rs left in the output directory by an earlier run
OldText == [kind |-> "old", body |-> <<>>]

\* out_code.to_string()
RawText(body) == [kind |-> "raw", body |-> body]

\* what `rustfmt --emit=stdout` prints for that text
FormattedText(body) == [kind |-> "formatted", body |-> body]

NoChild == [state |-> "none", stdout |-> NoText, success |-> FALSE]

\* generate_crate_for_code not yet called
CrateCall(format, main_rs, out_code) ==
    [pc |-> "idle", format |-> format, out_code |-> out_code,
     before |-> main_rs, main_rs |-> main_rs, child |-> NoChild,
     out |-> NoText, status |-> "unknown", result |-> "none"]

IdleCrate == CrateCall(FALSE, NoText, <<>>)

EnvIdle ==
    /\ cfg = CliConfig(NoInput) /\ build = "debug" /\ gen = "none"
    /\ crate = IdleCrate

GenIdle ==
    /\ cont = <<>> /\ tape = <<>> /\ pointer = 0 /\ input = <<>>
    /\ input_pos = 0 /\ out = <<>> /\ status = "idle" /\ last = NoStmt
    /\ steps = 0

(***************************************************************************)
(* Front end: the three calls of ast.rs on one source text                 *)
(***************************************************************************)
Texts(n) == UNION {[1..k -> Chars] : k \in 0..n}

\* the programs named by the specification's test corpus, and deeper nests
Corpus ==
    { <<"+", "+", "+", ".">>,
      <<",", ".">>,
      <<"[", "-", "]">>,
      <<"+", "+", "+", "[", ">", "+", "+", "+", "<", "-", "]", ">", ".">>,
      <<"[", "]">>,
      <<"[", "[", ",", "]", "]">>,
      <<"[", "[", "+", "]", "-", "]", "+">>,
      <<"+", "[", ">", ",", "[", ".", ">", "]", "<", "]">>,
      <<"+", "+", "x", "+", "[", "-", "-", "[", "]", "[", ".", ".", "]", "]", ">", ">">> }

Sources == Texts(MaxCode) \cup Corpus

Init ==
    /\ code \in Sources
    /\ tokens = <<>> /\ rtokens = <<>> /\ file = NoFile /\ pc = "source"
    /\ EnvIdle /\ GenIdle /\ interp = IdleInterp

DoTokenTokenize ==
    /\ pc = "source"
    /\ tokens' = Token_tokenize(code)
    /\ pc' = "tokens"
    /\ UNCHANGED <<code, rtokens, file, envVars, genVars, interp>>

DoRepeatedTokenize ==
    /\ pc = "tokens"
    /\ rtokens' = Repeated_tokenize(code)
    /\ pc' = "rtokens"
    /\ UNCHANGED <<code, tokens, file, envVars, genVars, interp>>

DoFromStr ==
    /\ pc = "rtokens"
    /\ file' = from_str(code)
    /\ pc' = "file"
    /\ UNCHANGED <<code, tokens, rtokens, envVars, genVars, interp>>

Next == DoTokenTokenize \/ DoRepeatedTokenize \/ DoFromStr

Spec == Init /\ [][Next]_vars

(***************************************************************************)
(* The generated program.  `usize` values are kept in a window around 0:   *)
(* a negative number x stands for 2^64 + x, which is what a wrapped        *)
(* subtraction leaves in a build without overflow checks.                  *)
(***************************************************************************)
ULt(a, b) == IF (a >= 0) = (b >= 0) THEN a < b ELSE a >= 0

UAddOverflows(a, b) ==
    \/ a < 0 /\ b < 0
    \/ (a < 0) # (b < 0) /\ a + b >= 0

UMin(a, b) == IF ULt(a, b) THEN a ELSE b

UMax(a, b) == IF ULt(a, b) THEN b ELSE a

RECURSIVE Pow2Pow2Mod(_, _)
\* 2^(2^k) mod m
Pow2Pow2Mod(k, m) ==
    IF k = 0 THEN 2 % m
    ELSE (Pow2Pow2Mod(k - 1, m) * Pow2Pow2Mod(k - 1, m)) % m

UMod(x, m) == IF x >= 0 THEN x % m ELSE (Pow2Pow2Mod(6, m) + x) % m

CellBits(cell_size) ==
    CASE cell_size = "U8" -> 8
      [] cell_size = "U16" -> 16
      [] cell_size = "U32" -> 32

CellModulus(cell_size) == 2 ^ CellBits(cell_size)

CellMax(cell_size) == CellModulus(cell_size) - 1

MEM_SIZE == cfg.memory_size

Cell(t, p) == IF p \in DOMAIN t THEN t[p] ELSE 0

Store(t, p, v) ==
    IF v = 0 THEN [q \in DOMAIN t \ {p} |-> t[q]]
    ELSE [q \in DOMAIN t \cup {p} |-> IF q = p THEN v ELSE t[q]]

\* `tape[pointer]` is bounds-checked in every build
InBounds(p) == p >= 0 /\ p < MEM_SIZE

Result(v) == [panic |-> FALSE, v |-> v]

Abort == [panic |-> TRUE, v |-> 0]

\* an arithmetic result that overflowed: a panic with overflow checks,
\* the wrapped value without
Overflowed(b, wrapped) == IF b = "debug" THEN Abort ELSE Result(wrapped)

\* Token::PointerAdd, lines 117-133
pointer_add(policy, b, m, p, n) ==
    IF UAddOverflows(p, n) /\ b = "debug" THEN Abort
    ELSE CASE policy = "Wrap" -> Result(UMod(p + n, m))
           [] policy = "Clamp" -> Result(UMin(p + n, m - 1))
           [] policy = "None" -> Result(p + n)

\* Token::PointerSub, lines 134-154
pointer_sub(policy, b, m, p, n) ==
    CASE policy = "Wrap" ->
            IF ULt(p, n)
            THEN IF ULt(m, n - p) THEN Overflowed(b, m - (n - p))
                 ELSE Result(m - (n - p))
            ELSE Result(p - n)
      [] policy = "Clamp" -> Result(UMax(p, n) - n)
      [] policy = "None" ->
            IF ULt(p, n) THEN Overflowed(b, p - n) ELSE Result(p - n)

\* Token::ValueAdd, lines 155-171; k is the count_u8 literal
value_add(policy, b, cell_size, cell, k) ==
    CASE policy = "None" ->
            IF cell + k > CellMax(cell_size)
            THEN Overflowed(b, (cell + k) % CellModulus(cell_size))
            ELSE Result(cell + k)
      [] policy = "Wrap" -> Result((cell + k) % CellModulus(cell_size))
      [] policy = "Abort" ->
            IF cell + k > CellMax(cell_size) THEN Abort ELSE Result(cell + k)

\* Token::ValueSub, lines 172-188
value_sub(policy, b, cell_size, cell, k) ==
    CASE policy = "None" ->
            IF cell < k
            THEN Overflowed(b, (cell - k) % CellModulus(cell_size))
            ELSE Result(cell - k)
      [] policy = "Wrap" -> Result((cell - k) % CellModulus(cell_size))
      [] policy = "Abort" ->
            IF cell < k THEN Abort ELSE Result(cell - k)

\* `to_ascii_char()` is Ok for 0..127 only
IsAscii(b) == b >= 0 /\ b <= 127

Running(op) == status = "running" /\ cont # <<>> /\ Head(cont).op = op

GenPanics(s) ==
    /\ status' = "panic"
    /\ last' = s
    /\ UNCHANGED <<cont, tape, pointer, input, input_pos, out, steps>>

Proceed(s) ==
    /\ cont' = Tail(cont)
    /\ status' = (IF Tail(cont) = <<>> THEN "done" ELSE "running")
    /\ last' = s

ExecPointerAdd ==
    /\ Running("PointerAdd")
    /\ LET s == Head(cont)
           r == pointer_add(s.policy, build, MEM_SIZE, pointer, s.count_usize)
       IN  IF r.panic THEN GenPanics(s)
           ELSE /\ pointer' = r.v
                /\ Proceed(s)
                /\ UNCHANGED <<tape, input, input_pos, out, steps>>
    /\ UNCHANGED <<frontVars, envVars, interp>>

ExecPointerSub ==
    /\ Running("PointerSub")
    /\ LET s == Head(cont)
           r == pointer_sub(s.policy, build, MEM_SIZE, pointer, s.count_usize)
       IN  IF r.panic THEN GenPanics(s)
           ELSE /\ pointer' = r.v
                /\ Proceed(s)
                /\ UNCHANGED <<tape, input, input_pos, out, steps>>
    /\ UNCHANGED <<frontVars, envVars, interp>>

ExecValueAdd ==
    /\ Running("ValueAdd")
    /\ LET s == Head(cont)
           r == value_add(s.policy, build, cfg.cell_size,
                          Cell(tape, pointer), s.count_u8)
       IN  IF ~InBounds(pointer) \/ r.panic THEN GenPanics(s)
           ELSE /\ tape' = Store(tape, pointer, r.v)
                /\ Proceed(s)
                /\ UNCHANGED <<pointer, input, input_pos, out, steps>>
    /\ UNCHANGED <<frontVars, envVars, interp>>

ExecValueSub ==
    /\ Running("ValueSub")
    /\ LET s == Head(cont)
           r == value_sub(s.policy, build, cfg.cell_size,
                          Cell(tape, pointer), s.count_u8)
       IN  IF ~InBounds(pointer) \/ r.panic THEN GenPanics(s)
           ELSE /\ tape' = Store(tape, pointer, r.v)
                /\ Proceed(s)
                /\ UNCHANGED <<pointer, input, input_pos, out, steps>>
    /\ UNCHANGED <<frontVars, envVars, interp>>

ExecReadAdvancesAtEof ==
    /\ Running("Read")
    /\ LET s == Head(cont) IN
       IF ~InBounds(pointer) THEN GenPanics(s)
       ELSE /\ tape' = Store(tape, pointer,
                             IF input_pos < Len(input)
                             THEN input[input_pos + 1] ELSE s.lit)
            /\ input_pos' = input_pos + s.count_usize
            /\ Proceed(s)
            /\ UNCHANGED <<pointer, input, out, steps>>
    /\ UNCHANGED <<frontVars, envVars, interp>>

\* Token::Read, lines 193-213
ExecRead ==
    /\ Running("Read")
    /\ LET s == Head(cont) IN
       IF input_pos < Len(input)
       THEN IF ~InBounds(pointer) THEN GenPanics(s)
            ELSE /\ tape' = Store(tape, pointer, input[input_pos + 1])
                 /\ input_pos' = input_pos + s.count_usize
                 /\ Proceed(s)
                 /\ UNCHANGED <<pointer, input, out, steps>>
       ELSE IF s.policy = "NoChange"
            THEN /\ Proceed(s)
                 /\ UNCHANGED <<tape, pointer, input, input_pos, out, steps>>
            ELSE IF ~InBounds(pointer) THEN GenPanics(s)
                 ELSE /\ tape' = Store(tape, pointer, s.lit)
                      /\ Proceed(s)
                      /\ UNCHANGED <<pointer, input, input_pos, out, steps>>
    /\ UNCHANGED <<frontVars, envVars, interp>>

\* Token::Write, lines 215-222
ExecWrite ==
    /\ Running("Write")
    /\ Len(out) + Head(cont).count_usize <= MaxOut
    /\ LET s == Head(cont) IN
       IF ~InBounds(pointer) \/ ~IsAscii(Cell(tape, pointer)) THEN GenPanics(s)
       ELSE /\ out' = out \o [k \in 1..s.count_usize |-> Cell(tape, pointer)]
            /\ Proceed(s)
            /\ UNCHANGED <<tape, pointer, input, input_pos, steps>>
    /\ UNCHANGED <<frontVars, envVars, interp>>

ExecWhileInverted ==
    /\ Running("while")
    /\ LET s == Head(cont) IN
       IF ~InBounds(pointer) THEN GenPanics(s)
       ELSE /\ IF Cell(tape, pointer) = 0
               THEN cont' = s.body \o cont /\ status' = "running" /\ last' = s
               ELSE Proceed(s)
            /\ UNCHANGED <<tape, pointer, input, input_pos, out, steps>>
    /\ UNCHANGED <<frontVars, envVars, interp>>

\* Segment::Loop, lines 92-100: `while tape[pointer] != 0 { #body }`
ExecWhile ==
    /\ Running("while")
    /\ LET s == Head(cont) IN
       IF ~InBounds(pointer) THEN GenPanics(s)
       ELSE /\ IF Cell(tape, pointer) # 0
               THEN cont' = s.body \o cont /\ status' = "running" /\ last' = s
               ELSE Proceed(s)
            /\ UNCHANGED <<tape, pointer, input, input_pos, out, steps>>
    /\ UNCHANGED <<frontVars, envVars, interp>>

\* generate(file), and the start of the program it returned: `input` holds
\* what standard input will deliver and becomes the program's buffer
DoGenerate ==
    /\ pc = "file"
    /\ pc' = "generated"
    /\ LET r == generate(cfg, file) IN
       /\ gen' = r.outcome
       /\ IF r.outcome = "Ok"
          THEN /\ cont' = r.body
               /\ status' = (IF r.body = <<>> THEN "done" ELSE "running")
               /\ input' = template_input(cfg, file.needs_input, input)
               /\ UNCHANGED <<tape, pointer, input_pos, out, last, steps>>
          ELSE UNCHANGED genVars
    /\ UNCHANGED <<code, tokens, rtokens, file, cfg, build, interp, crate>>

GenEnded == gen = "Panic" \/ status \in {"done", "panic"}

(***************************************************************************)
(* interpreter/src/main.rs                                                 *)
(***************************************************************************)
MEMORY_SIZE == 30000

MAX_POINTER == MEMORY_SIZE - 1

WRAPPING == FALSE

\* BrainfuckInterpreter::new, ready for run()
new(text, in) ==
    [memory |-> <<>>, pointer |-> 0, loop_stack |-> <<>>, input |-> in,
     input_pos |-> 0, code |-> text, code_pos |-> 0, output |-> <<>>,
     status |-> "running"]

Arm(i, increment, fail) == [i |-> i, increment |-> increment, fail |-> fail]

\* the `match c` of run(), lines 440-489
match_c(i, c) ==
    CASE c = ">" ->
            Arm([i EXCEPT !.pointer =
                    IF WRAPPING THEN (i.pointer + 1) % MAX_POINTER
                    ELSE IF i.pointer + 1 < MAX_POINTER THEN i.pointer + 1
                         ELSE MAX_POINTER],
                TRUE, "none")
      [] c = "<" ->
            Arm([i EXCEPT !.pointer =
                    IF WRAPPING
                    THEN IF i.pointer = 0 THEN MAX_POINTER ELSE i.pointer - 1
                    ELSE IF i.pointer > 0 THEN i.pointer - 1 ELSE i.pointer],
                TRUE, "none")
      [] c = "+" ->
            Arm([i EXCEPT !.memory =
                    Store(i.memory, i.pointer,
                          (Cell(i.memory, i.pointer) + 1) % 256)],
                TRUE, "none")
      [] c = "-" ->
            Arm([i EXCEPT !.memory =
                    Store(i.memory, i.pointer,
                          (Cell(i.memory, i.pointer) - 1) % 256)],
                TRUE, "none")
      [] c = "." ->
            IF IsAscii(Cell(i.memory, i.pointer))
            THEN Arm([i EXCEPT !.output =
                         Append(i.output, Cell(i.memory, i.pointer))],
                     TRUE, "none")
            ELSE Arm(i, TRUE, "panic")
      [] c = "," ->
            IF i.input_pos < Len(i.input)
            THEN Arm([i EXCEPT !.memory =
                         Store(i.memory, i.pointer, i.input[i.input_pos + 1]),
                      !.input_pos = i.input_pos + 1],
                     TRUE, "none")
            ELSE Arm(i, TRUE, "none")
      [] c = "[" ->
            Arm([i EXCEPT !.loop_stack = Append(i.loop_stack, i.code_pos + 1)],
                TRUE, "none")
      [] c = "]" ->
            IF Cell(i.memory, i.pointer) # 0
            THEN IF i.loop_stack = <<>> THEN Arm(i, FALSE, "error")
                 ELSE Arm([i EXCEPT !.code_pos =
                              i.loop_stack[Len(i.loop_stack)]],
                          FALSE, "none")
            ELSE Arm([i EXCEPT !.loop_stack =
                         IF i.loop_stack = <<>> THEN <<>>
                         ELSE SubSeq(i.loop_stack, 1, Len(i.loop_stack) - 1)],
                     TRUE, "none")
      [] OTHER -> Arm(i, TRUE, "none")

\* one iteration of the `loop` of run() in which the debugger said Step
iteration(i) ==
    IF i.code_pos >= Len(i.code)
    THEN [i EXCEPT !.status = "panic"]
    ELSE LET r == match_c(i, i.code[i.code_pos + 1])
             code_pos == IF r.increment THEN r.i.code_pos + 1 ELSE r.i.code_pos
         IN  IF r.fail # "none" THEN [i EXCEPT !.status = r.fail]
             ELSE [r.i EXCEPT !.code_pos = code_pos,
                              !.status = IF code_pos >= Len(i.code)
                                         THEN "done" ELSE "running"]

\* the model follows a run until its output holds MaxOut bytes or its
\* pointer stands at cell MaxPointer
Followed(i) ==
    IF i.code_pos >= Len(i.code) THEN TRUE
    ELSE /\ i.code[i.code_pos + 1] # "." \/ Len(i.output) < MaxOut
         /\ i.code[i.code_pos + 1] # ">" \/ i.pointer < MaxPointer

InterpStep ==
    /\ interp.status = "running"
    /\ Followed(interp)
    /\ interp' = iteration(interp)
    /\ UNCHANGED <<frontVars, envVars, genVars>>

\* the debugger's draw() returned DebugCommand::Quit
InterpQuit ==
    /\ interp.status = "running"
    /\ interp' = [interp EXCEPT !.status = "quit"]
    /\ UNCHANGED <<frontVars, envVars, genVars>>

InterpEnded == interp.status \in {"done", "panic", "error"}

(***************************************************************************)
(* Run specification: codegen's main() on a source text under the CLI's    *)
(* configuration, the generated program on an input buffer, and then the   *)
(* interpreter on the same text and buffer.  The two runs share nothing,   *)
(* so they are taken one after the other.                                  *)
(***************************************************************************)
RunCorpus ==
    { <<"+", "+", "+", ".">>,
      <<",", ".">>,
      <<"[", "-", "]">>,
      <<"+", "+", "+", "[", ">", "+", "+", "+", "<", "-", "]", ">", ".">>,
      <<"[", "]">>,
      <<"+", "+", "[", "-", "]", ".", "]">>,
      <<",", "[", ".", ",", "]">>,
      <<"+", "[", ".", "-", "]", "]">>,
      <<"+", "+", "[", ">", "+", "+", "[", "-", "]", "<", "-", "]", "]">> }

RunSources == UNION {[1..k -> InstrChars] : k \in 0..MaxRunCode} \cup RunCorpus

Inputs == {<<>>, <<65>>}

Builds == {"debug", "release"}

InitRun ==
    \E src \in RunSources, in \in Inputs, fixed \in BOOLEAN :
        /\ code = src
        /\ tokens = Token_tokenize(src)
        /\ rtokens = Repeated_tokenize(src)
        /\ file = NoFile
        /\ pc = "rtokens"
        /\ cfg = CliConfig(IF fixed THEN SomeInput(in) ELSE NoInput)
        /\ build \in Builds
        /\ gen = "none"
        /\ crate = IdleCrate
        /\ cont = <<>> /\ tape = <<>> /\ pointer = 0
        /\ input = (IF fixed THEN <<>> ELSE in)
        /\ input_pos = 0 /\ out = <<>> /\ status = "idle" /\ last = NoStmt
        /\ steps = 0
        /\ interp = new(src, in)

NextRun ==
    \/ DoFromStr
    \/ DoGenerate
    \/ ExecPointerAdd
    \/ ExecPointerSub
    \/ ExecValueAdd
    \/ ExecValueSub
    \/ ExecRead
    \/ ExecWrite
    \/ ExecWhile
    \/ GenEnded /\ InterpStep
    \/ GenEnded /\ InterpQuit

SpecRun == InitRun /\ [][NextRun]_vars

(***************************************************************************)
(* Policy specification: the statement generate_statements emits for one   *)
(* token, executed on the state the previous statements left, under every  *)
(* combination of the policies.                                            *)
(***************************************************************************)
Counts == {1, 2, 5, 256, 257}

TokenChoices ==
    {Repeated(t, n) :
        t \in {"PointerAdd", "PointerSub", "ValueAdd", "ValueSub"}, n \in Counts}
    \cup {Repeated("Write", 1), Repeated("Write", 2), Repeated("Read", 1)}

\* U32 is left out: 2^32 is not a number TLC can hold
PolicyConfigs ==
    [memory_size : {PolicyMemSize},
     pointer_safety : {"Wrap", "Clamp", "None"},
     overflow_behavior : {"Wrap", "Abort", "None"},
     cell_size : {"U8", "U16"},
     fixed_input : {SomeInput(<<65>>)},
     eof_behavior : {NoChange, Fixed(10)}]

InitPolicy ==
    /\ code = <<>> /\ tokens = <<>> /\ rtokens = <<>> /\ file = NoFile
    /\ pc = "policy"
    /\ cfg \in PolicyConfigs
    /\ build \in Builds
    /\ gen = "Ok"
    /\ crate = IdleCrate
    /\ cont = <<>> /\ tape = <<>> /\ pointer = 0
    /\ input = cfg.fixed_input.value
    /\ input_pos = 0 /\ out = <<>> /\ status = "idle" /\ last = NoStmt
    /\ steps = 0
    /\ interp = IdleInterp

\* the next token of the Executable segment is lowered
LowerToken ==
    /\ pc = "policy"
    /\ status \in {"idle", "done"}
    /\ steps < MaxSteps
    /\ \E token \in TokenChoices :
           cont' = generate_statements(cfg, <<token>>)
    /\ status' = "running"
    /\ steps' = steps + 1
    /\ UNCHANGED <<frontVars, envVars, tape, pointer, input, input_pos, out,
                   last, interp>>

NextPolicy ==
    \/ LowerToken
    \/ ExecPointerAdd
    \/ ExecPointerSub
    \/ ExecValueAdd
    \/ ExecValueSub
    \/ ExecRead
    \/ ExecWrite

SpecPolicy == InitPolicy /\ [][NextPolicy]_vars

(***************************************************************************)
(* Generate specification: generate() on a File a caller built from a      *)
(* token vector of its own (Tokens::new, segment), where a read may carry  *)
(* any count.                                                              *)
(***************************************************************************)
AllTokens ==
    {"PointerAdd", "PointerSub", "ValueAdd", "ValueSub", "Read", "Write",
     "LoopStart", "LoopEnd"}

TokenVectors ==
    UNION {[1..k -> {Repeated(t, n) : t \in AllTokens, n \in 1..2}] :
              k \in 0..MaxToks}

InitGenerate ==
    /\ code = <<>> /\ tokens = <<>> /\ file = NoFile
    /\ rtokens \in TokenVectors
    /\ pc = "new"
    /\ EnvIdle /\ GenIdle /\ interp = IdleInterp

\* File { segments: Tokens::new(rtokens).segment(), needs_input }
DoSegment ==
    /\ pc = "new"
    /\ file' = [segments |-> segment(rtokens),
                needs_input |-> needs_input_of(rtokens)]
    /\ pc' = "file"
    /\ UNCHANGED <<code, tokens, rtokens, envVars, genVars, interp>>

NextGenerate == DoSegment \/ DoGenerate

SpecGenerate == InitGenerate /\ [][NextGenerate]_vars

(***************************************************************************)
(* Crate specification: codegen's main() from the source text to the       *)
(* return of generate_crate_for_code (gen_crate.rs).  rustfmt and the file *)
(* system are the environment: every `?` may see an error, and the         *)
(* formatter ends with either exit status.                                 *)
(***************************************************************************)
CrateSources == UNION {[1..k -> InstrChars] : k \in 0..MaxCrateCode}

InitCrate ==
    \E src \in CrateSources, format \in BOOLEAN, main_rs \in {NoText, OldText} :
        /\ code = src
        /\ tokens = Token_tokenize(src)
        /\ rtokens = Repeated_tokenize(src)
        /\ file = NoFile
        /\ pc = "rtokens"
        /\ cfg = CliConfig(NoInput) /\ build = "debug" /\ gen = "none"
        /\ crate = CrateCall(format, main_rs, <<>>)
        /\ GenIdle
        /\ interp = IdleInterp

CrateUnchanged == UNCHANGED <<frontVars, cfg, build, gen, genVars, interp>>

CrateFails(c) == [c EXCEPT !.pc = "returned", !.result = "Err"]

\* lines 33-53: the directories, Cargo.toml, README.md, the copied source
CratePrepare ==
    /\ pc = "generated" /\ gen = "Ok"
    /\ crate.pc = "idle"
    /\ \E ok \in BOOLEAN :
          crate' = IF ok
                   THEN [crate EXCEPT !.pc = "src_dir", !.out_code = cont]
                   ELSE CrateFails(crate)
    /\ CrateUnchanged

\* lines 55-56 and 89: without --format the raw text is written
CrateWriteRaw ==
    /\ crate.pc = "src_dir" /\ ~crate.format
    /\ \E ok \in BOOLEAN :
          crate' = IF ok
                   THEN [crate EXCEPT !.pc = "returned", !.result = "Ok",
                                      !.main_rs = RawText(crate.out_code)]
                   ELSE CrateFails(crate)
    /\ CrateUnchanged

\* lines 58-69: cmd.spawn()?
CrateSpawn ==
    /\ crate.pc = "src_dir" /\ crate.format
    /\ \E ok \in BOOLEAN :
          crate' = IF ok
                   THEN [crate EXCEPT !.pc = "spawned", !.child.state = "running"]
                   ELSE CrateFails(crate)
    /\ CrateUnchanged

\* lines 71-73: stdin.write_all(..)?; drop(stdin)
CratePipeIn ==
    /\ crate.pc = "spawned"
    /\ \E ok \in BOOLEAN :
          crate' = IF ok THEN [crate EXCEPT !.pc = "piped"]
                   ELSE CrateFails(crate)
    /\ CrateUnchanged

\* rustfmt, its standard input closed, prints and ends: formatted text and
\* success, or a non-zero status behind no text or behind the text
RustfmtExits ==
    /\ crate.pc = "piped" /\ crate.child.state = "running"
    /\ \E success \in BOOLEAN,
          stdout \in {EmptyText, FormattedText(crate.out_code)} :
          /\ success => stdout = FormattedText(crate.out_code)
          /\ crate' = [crate EXCEPT !.child = [state |-> "exited",
                                               stdout |-> stdout,
                                               success |-> success]]
    /\ CrateUnchanged

\* lines 75-79: stdout.read_to_string(&mut out)? returns at end of file
CrateReadOut ==
    /\ crate.pc = "piped" /\ crate.child.state = "exited"
    /\ \E ok \in BOOLEAN :
          crate' = IF ok
                   THEN [crate EXCEPT !.pc = "read", !.out = crate.child.stdout]
                   ELSE CrateFails(crate)
    /\ CrateUnchanged

\* line 81: fs::write(src/main.rs, out)?
CrateWriteFormatted ==
    /\ crate.pc = "read"
    /\ \E ok \in BOOLEAN :
          crate' = IF ok
                   THEN [crate EXCEPT !.pc = "written", !.main_rs = crate.out]
                   ELSE CrateFails(crate)
    /\ CrateUnchanged

\* lines 83-89: child.wait()? and the test of the status
CrateWait ==
    /\ crate.pc = "written"
    /\ \E ok \in BOOLEAN :
          crate' = IF ~ok THEN CrateFails(crate)
                   ELSE IF crate.child.success
                   THEN [crate EXCEPT !.pc = "returned", !.status = "success",
                                      !.result = "Ok"]
                   ELSE [crate EXCEPT !.pc = "returned", !.status = "failure",
                                      !.result = "Err"]
    /\ CrateUnchanged

NextCrate ==
    \/ DoFromStr
    \/ DoGenerate
    \/ CratePrepare
    \/ CrateWriteRaw
    \/ CrateSpawn
    \/ CratePipeIn
    \/ RustfmtExits
    \/ CrateReadOut
    \/ CrateWriteFormatted
    \/ CrateWait

SpecCrate == InitCrate /\ [][NextCrate]_vars

(***************************************************************************)
(* Helpers of the properties                                               *)
(***************************************************************************)
AsChars(toks) == [k \in 1..Len(toks) |-> as_char(toks[k])]

IsInstr(c) == c \in InstrChars

RECURSIVE Copies(_, _)
Copies(x, n) == IF n <= 0 THEN <<>> ELSE <<x>> \o Copies(x, n - 1)

RECURSIVE Expand(_)
\* every Repeated token replaced by `count` copies of its instruction
Expand(toks) ==
    IF toks = <<>> THEN <<>>
    ELSE Copies(toks[1].token, toks[1].count) \o Expand(Tail(toks))

IsBracket(t) == t.token \in {"LoopStart", "LoopEnd"}

NotBracket(t) == ~IsBracket(t)

\* bracket depth after the first k tokens
RECURSIVE DepthAt(_, _)
DepthAt(toks, k) ==
    IF k = 0 THEN 0
    ELSE DepthAt(toks, k - 1)
         + (IF toks[k].token = "LoopStart" THEN 1
            ELSE IF toks[k].token = "LoopEnd" THEN -1 ELSE 0)

Balanced(toks) ==
    /\ \A k \in 1..Len(toks) : DepthAt(toks, k) >= 0
    /\ DepthAt(toks, Len(toks)) = 0

RECURSIVE Flatten(_)
\* the tokens of the Executable segments in the pre-order walk
Flatten(segments) ==
    IF segments = <<>> THEN <<>>
    ELSE (IF segments[1].kind = "Executable" THEN segments[1].tokens
          ELSE Flatten(segments[1].body))
         \o Flatten(Tail(segments))

(***************************************************************************)
(* Properties of the front end                                             *)
(***************************************************************************)
\* C1: under the CLI's configuration the generated program writes the
\* bytes the interpreter writes, for the same source text and input buffer.
C1_GeneratedOutputEqualsInterpreter ==
    (pc = "generated" /\ GenEnded /\ InterpEnded) => out = interp.output

\* C2: for a balanced token sequence the pre-order concatenation of the
\* Executable segments of segment() is the sequence of its non-bracket
\* tokens, trailing top-level tokens and loop-free programs included.
C2_SegmentPreservesTokens ==
    (pc = "file" /\ Balanced(rtokens))
        => Flatten(file.segments) = SelectSeq(rtokens, NotBracket)

\* C3: expanding the run-length tokenizer's output gives the 1:1
\* tokenizer's output on the same text.
C3_ExpandIsTokenize ==
    pc \in {"rtokens", "file"} => Expand(rtokens) = tokens

C3_Witness ==
    /\ pc = "rtokens"
    /\ Len(rtokens) >= 2
    /\ \E k \in 1..Len(rtokens) : rtokens[k].count >= 2
    /\ Len(tokens) > Len(rtokens)

\* C4: the 1:1 tokenizer returns exactly the instruction characters of the
\* text, in order; everything else is dropped.
C4_TokenizeIsInstructionSubsequence ==
    pc \in {"tokens", "rtokens", "file"}
        => AsChars(tokens) = SelectSeq(code, IsInstr)

C4_Witness ==
    /\ pc = "tokens"
    /\ \E k \in 1..Len(code) : ~IsInstr(code[k])
    /\ \E k \in 1..Len(code) : code[k] = "["
    /\ Len(tokens) >= 2
    /\ Len(tokens) < Len(code)

\* C5: needs_input is true exactly when the text holds a read instruction,
\* at any bracket depth.
C5_NeedsInputIffRead ==
    pc = "file"
        => (file.needs_input <=> \E k \in 1..Len(code) : code[k] = ",")

C5_Witness ==
    /\ pc = "file"
    /\ file.needs_input
    /\ \E k \in 1..Len(rtokens) :
           rtokens[k].token = "Read" /\ DepthAt(rtokens, k) >= 2

RECURSIVE HasRepeatedRead(_)
\* a read token with count > 1 somewhere in the segment tree
HasRepeatedRead(segments) ==
    IF segments = <<>> THEN FALSE
    ELSE \/ IF segments[1].kind = "Executable"
            THEN \E k \in 1..Len(segments[1].tokens) :
                     /\ segments[1].tokens[k].token = "Read"
                     /\ segments[1].tokens[k].count > 1
            ELSE HasRepeatedRead(segments[1].body)
         \/ HasRepeatedRead(Tail(segments))

\* C7: generate() fails exactly for a program holding a read token with
\* count > 1, and then by an error returned to the caller, with nothing
\* produced and nothing changed.
C7_RepeatedReadIsReportedError ==
    pc = "generated"
        => IF HasRepeatedRead(file.segments)
           THEN gen = "Err" /\ GenIdle
           ELSE gen = "Ok"

\* C8: under the wrap cell policy a cell-inc (cell-dec) token with count n
\* leaves (cell + n) mod 2^w (resp. (cell - n) mod 2^w) in the current cell.
C8_WrapAddsCountModWidth ==
    [][(/\ Running("ValueAdd") \/ Running("ValueSub")
        /\ Head(cont).policy = "Wrap"
        /\ InBounds(pointer))
          => Cell(tape', pointer) =
                (IF Head(cont).op = "ValueAdd"
                 THEN Cell(tape, pointer) + Head(cont).count_usize
                 ELSE Cell(tape, pointer) - Head(cont).count_usize)
                % CellModulus(cfg.cell_size)]_vars

\* C9: under the abort cell policy the program dies at a cell-inc token with
\* count n exactly when cell + n exceeds the cell type's maximum, and at a
\* cell-dec token exactly when cell - n is below zero.
C9_AbortExactlyOnOverflow ==
    [][(/\ Running("ValueAdd") \/ Running("ValueSub")
        /\ Head(cont).policy = "Abort"
        /\ InBounds(pointer))
          => (status' = "panic"
                <=> IF Head(cont).op = "ValueAdd"
                    THEN Cell(tape, pointer) + Head(cont).count_usize
                            > CellMax(cfg.cell_size)
                    ELSE Cell(tape, pointer) - Head(cont).count_usize < 0)]_vars

\* C10: under the wrap pointer policy pointer-inc (pointer-dec) with count n
\* leaves (pointer + n) mod MEM_SIZE (resp. (pointer - n) mod MEM_SIZE), so
\* the pointer stays in [0, MEM_SIZE).
C10_WrapPointerModMemSize ==
    /\ [][(/\ Running("PointerAdd") \/ Running("PointerSub")
           /\ Head(cont).policy = "Wrap"
           /\ InBounds(pointer))
             => /\ status' # "panic"
                /\ pointer' =
                      (IF Head(cont).op = "PointerAdd"
                       THEN pointer + Head(cont).count_usize
                       ELSE pointer - Head(cont).count_usize) % MEM_SIZE]_vars
    /\ [](cfg.pointer_safety = "Wrap" => InBounds(pointer))

\* the cells of t other than p
Others(t, p) == [q \in DOMAIN t \ {p} |-> t[q]]

\* C11: a read of the generated program stores the byte at the input cursor
\* in the current cell and advances the cursor by one when a byte remains;
\* at or past the end of the buffer the cursor stays and the cell is left
\* alone (no-change policy) or set to the configured byte (fixed policy).
\* Either way the pointer and every other cell are unchanged, and the cursor
\* never exceeds the length of the buffer.
C11_ReadStoresByteOrAppliesEof ==
    /\ [][Running("Read")
            => /\ pointer' = pointer
               /\ Others(tape', pointer) = Others(tape, pointer)
               /\ input' = input /\ out' = out
               /\ IF input_pos < Len(input)
                  THEN InBounds(pointer)
                          => /\ status' # "panic"
                             /\ Cell(tape', pointer) = input[input_pos + 1]
                             /\ input_pos' = input_pos + 1
                  ELSE /\ input_pos' = input_pos
                       /\ cfg.eof_behavior.kind = "NoChange"
                             => tape' = tape /\ status' # "panic"
                       /\ (cfg.eof_behavior.kind = "Fixed" /\ InBounds(pointer))
                             => /\ status' # "panic"
                                /\ Cell(tape', pointer) = cfg.eof_behavior.byte]_vars
    /\ [](input_pos <= Len(input))

\* a read took the only byte, then a second read met the end of the buffer
\* under the fixed policy
C11_Witness ==
    /\ steps = 2
    /\ status = "done"
    /\ last.op = "Read"
    /\ cfg.eof_behavior.kind = "Fixed"
    /\ input_pos = 1 /\ Len(input) = 1
    /\ Cell(tape, pointer) = cfg.eof_behavior.byte

\* C12: a write token with count n appends n copies of the character of the
\* current cell's value to the output, whatever value the cell holds, and
\* leaves tape, pointer and input cursor unchanged.
C12_WriteAppendsCopies ==
    [][(Running("Write") /\ InBounds(pointer))
          => /\ status' # "panic"
             /\ out' = out \o Copies(Cell(tape, pointer), Head(cont).count_usize)
             /\ tape' = tape /\ pointer' = pointer
             /\ input_pos' = input_pos]_vars

(***************************************************************************)
(* Properties of the run-length tokenizer and of the structurer            *)
(***************************************************************************)
\* no two neighbours of toks carry the same instruction, unless it is one
\* of `unmerged`
NoEqualNeighbours(toks, unmerged) ==
    \A k \in 1..(Len(toks) - 1) :
        toks[k].token = toks[k + 1].token => toks[k].token \in unmerged

\* C13 as stated: in the run-length tokenizer's output every maximal run of
\* one instruction other than loop-start and loop-end is one token whose
\* count is the length of the run, so two neighbours carry the same
\* instruction only if it is loop-start or loop-end.
C13_RunsMergedExceptLoops ==
    pc \in {"rtokens", "file"}
        => /\ NoEqualNeighbours(rtokens, {"LoopStart", "LoopEnd"})
           /\ Expand(rtokens) = tokens

\* C13 amended: the same with read among the instructions that are never
\* merged: every read is a token of its own.
C13_RunsMergedExceptLoopsAndRead ==
    pc \in {"rtokens", "file"}
        => /\ NoEqualNeighbours(rtokens, {"LoopStart", "LoopEnd", "Read"})
           /\ \A k \in 1..Len(rtokens) :
                  rtokens[k].token = "Read" => rtokens[k].count = 1
           /\ Expand(rtokens) = tokens

C13_Witness ==
    /\ pc = "rtokens"
    /\ \E k \in 1..(Len(rtokens) - 1) :
           rtokens[k].token = "Read" /\ rtokens[k + 1].token = "Read"
    /\ \E k \in 1..Len(rtokens) :
           rtokens[k].token = "Write" /\ rtokens[k].count = 2

\* C14: every token of the run-length tokenizer's output has count >= 1 and
\* every loop-start or loop-end token has count 1, so the output holds as
\* many loop-start (loop-end) tokens as the text holds `[` (`]`).
C14_LoopTokensAreSingletons ==
    pc \in {"rtokens", "file"}
        => /\ \A k \in 1..Len(rtokens) :
                  /\ rtokens[k].count >= 1
                  /\ IsBracket(rtokens[k]) => rtokens[k].count = 1
           /\ \A c \in {"[", "]"} :
                  Cardinality({k \in 1..Len(rtokens) : as_char(rtokens[k].token) = c})
                      = Cardinality({k \in 1..Len(code) : code[k] = c})

C14_Witness ==
    /\ pc = "rtokens"
    /\ \E k \in 1..(Len(rtokens) - 1) :
           IsBracket(rtokens[k]) /\ rtokens[k + 1].token = rtokens[k].token
    /\ \E k \in 1..Len(rtokens) : rtokens[k].count >= 2

\* position of the loop-end that closes the loop-start at position i
MatchOf(toks, i) ==
    CHOOSE j \in (i + 1)..Len(toks) :
        /\ DepthAt(toks, j) = DepthAt(toks, i) - 1
        /\ \A k \in (i + 1)..(j - 1) : DepthAt(toks, k) >= DepthAt(toks, i)

RECURSIVE TreeWalk(_, _, _, _, _)
\* the tree of the balanced range i..hi of toks, by explicit matching:
\* every straight-line run an Executable, every matched pair a Loop over the
\* tree of what lies between
TreeWalk(toks, i, hi, segments, run) ==
    IF i > hi
    THEN IF run # <<>> THEN Append(segments, Executable(run)) ELSE segments
    ELSE IF toks[i].token = "LoopStart"
         THEN LET j == MatchOf(toks, i)
                  flushed == IF run # <<>>
                             THEN Append(segments, Executable(run))
                             ELSE segments
              IN  TreeWalk(toks, j + 1, hi,
                           Append(flushed,
                                  Loop(TreeWalk(toks, i + 1, j - 1, <<>>, <<>>))),
                           <<>>)
         ELSE TreeWalk(toks, i + 1, hi, segments, Append(run, toks[i]))

TreeOf(toks, lo, hi) == TreeWalk(toks, lo, hi, <<>>, <<>>)

RECURSIVE LoopBodies(_)
\* the bodies of the Loop segments, in pre-order
LoopBodies(segments) ==
    IF segments = <<>> THEN <<>>
    ELSE (IF segments[1].kind = "Loop"
          THEN <<segments[1].body>> \o LoopBodies(segments[1].body)
          ELSE <<>>)
         \o LoopBodies(Tail(segments))

RECURSIVE StartsFrom(_, _)
\* the positions of the loop-start tokens from position k on, ascending
StartsFrom(toks, k) ==
    IF k > Len(toks) THEN <<>>
    ELSE (IF toks[k].token = "LoopStart" THEN <<k>> ELSE <<>>)
         \o StartsFrom(toks, k + 1)

\* C15: for a balanced token sequence the consumed-length accounting of
\* segment_inner is exact: the Loop segment of the loop-start at i, closed
\* at j, has as body the tree of exactly the tokens i+1..j-1 (empty when
\* j = i+1); the recursive call for it reports j-i-1 tokens, so that the
\* caller resumes at j+1; and the top-level call reports the length of the
\* sequence.
C15_ConsumedAccountingExact ==
    (pc = "file" /\ Balanced(rtokens))
        => LET starts == StartsFrom(rtokens, 1)
               bodies == LoopBodies(file.segments)
           IN  /\ segment_inner(rtokens).consumed = Len(rtokens)
               /\ Len(bodies) = Len(starts)
               /\ \A k \in 1..Len(starts) :
                    LET i == starts[k]
                        j == MatchOf(rtokens, i)
                        inner == segment_inner(SubSeq(rtokens, i + 1, Len(rtokens)))
                    IN  /\ bodies[k] = TreeOf(rtokens, i + 1, j - 1)
                        /\ inner.consumed = j - i - 1
                        /\ inner.segments = bodies[k]

\* nested, sibling and empty loops in one balanced text
C15_Witness ==
    /\ pc = "file"
    /\ Balanced(rtokens)
    /\ \E k \in 1..Len(file.segments) :
           /\ file.segments[k].kind = "Loop"
           /\ Len(LoopBodies(file.segments[k].body)) >= 2
           /\ <<>> \in {LoopBodies(file.segments[k].body)[n] :
                           n \in 1..Len(LoopBodies(file.segments[k].body))}
           /\ \E n \in 1..Len(file.segments[k].body) :
                  file.segments[k].body[n].kind = "Executable"

\* the loop-start at position i is never closed
Unmatched(toks, i) ==
    /\ toks[i].token = "LoopStart"
    /\ \A k \in i..Len(toks) : DepthAt(toks, k) >= DepthAt(toks, i)

\* no loop-end without a loop-start before it
NoDanglingEnd(toks) == \A k \in 1..Len(toks) : DepthAt(toks, k) >= 0

\* C16: for a token sequence with a loop-start that has no loop-end,
\* segment() returns a tree in which the Loop segment of that loop-start
\* holds, in order, every token that follows it.
C16_DanglingStartTakesRemainder ==
    (pc = "file" /\ NoDanglingEnd(rtokens))
        => LET starts == StartsFrom(rtokens, 1)
               bodies == LoopBodies(file.segments)
           IN  \A k \in 1..Len(starts) :
                  Unmatched(rtokens, starts[k])
                     => /\ k <= Len(bodies)
                        /\ Flatten(bodies[k]) =
                              SelectSeq(SubSeq(rtokens, starts[k] + 1, Len(rtokens)),
                                        NotBracket)

\* position of the first loop-end that has no loop-start, 0 if there is none
FirstDanglingEnd(toks) ==
    IF NoDanglingEnd(toks) THEN 0
    ELSE CHOOSE j \in 1..Len(toks) :
            DepthAt(toks, j) < 0 /\ \A k \in 1..(j - 1) : DepthAt(toks, k) >= 0

\* C17: for a token sequence with a loop-end that has no loop-start,
\* segment() returns the tree of the tokens before that loop-end, the run
\* pending there pushed as an Executable, and nothing of what follows it.
C17_DanglingEndTruncates ==
    (pc = "file" /\ ~NoDanglingEnd(rtokens))
        => LET j == FirstDanglingEnd(rtokens)
           IN  /\ file.segments = TreeOf(rtokens, 1, j - 1)
               /\ Flatten(file.segments) =
                     SelectSeq(SubSeq(rtokens, 1, j - 1), NotBracket)

\* a run is pending at the dangling loop-end, and tokens follow it
C17_Witness ==
    /\ pc = "file"
    /\ ~NoDanglingEnd(rtokens)
    /\ LET j == FirstDanglingEnd(rtokens)
       IN  /\ j > 1 /\ NotBracket(rtokens[j - 1])
           /\ j < Len(rtokens) /\ NotBracket(rtokens[Len(rtokens)])
    /\ file.segments # <<>>
    /\ file.segments[Len(file.segments)].kind = "Executable"

RECURSIVE Executables(_)
\* the token vectors of the Executable segments, in pre-order
Executables(segments) ==
    IF segments = <<>> THEN <<>>
    ELSE (IF segments[1].kind = "Executable" THEN <<segments[1].tokens>>
          ELSE Executables(segments[1].body))
         \o Executables(Tail(segments))

\* C19: for every source text, balanced or not, no Executable segment of
\* the File from_str builds is empty or holds a loop-start or loop-end
\* token, so lowering it stops at neither macro of generate_statements.
C19_ExecutablesNonEmptyLoopFree ==
    pc = "file"
        => /\ \A n \in 1..Len(Executables(file.segments)) :
                LET e == Executables(file.segments)[n]
                IN  e # <<>> /\ \A k \in 1..Len(e) : NotBracket(e[k])
           /\ ~body_panics(file.segments)

\* an unbalanced text with an Executable and two loops in a row
C19_Witness ==
    /\ pc = "file"
    /\ ~Balanced(rtokens)
    /\ Executables(file.segments) # <<>>
    /\ \E k \in 1..(Len(file.segments) - 1) :
           file.segments[k].kind = "Loop" /\ file.segments[k + 1].kind = "Loop"

(***************************************************************************)
(* Properties of generate_crate_for_code                                   *)
(***************************************************************************)
\* C18: with --format, when rustfmt exits non-zero generate_crate_for_code
\* returns an error and src/main.rs is as it was before the call; src/main.rs
\* is written only once a successful exit status has been seen.
C18_NoWriteBeforeSuccessfulExit ==
    crate.format
        => /\ crate.main_rs # crate.before => crate.status = "success"
           /\ (crate.pc = "returned" /\ crate.child.state = "exited"
                  /\ ~crate.child.success /\ crate.status = "failure")
                 => crate.result = "Err" /\ crate.main_rs = crate.before

====
